---- MODULE Spec2Model ----
(***************************************************************************)
(* A model of wtfpeewee: the cascading save of ModelForm (forms.py) and    *)
(* the schema converter ModelConverter (orm.py).                           *)
(*                                                                         *)
(* The database is a set of rows of three models linked by foreign keys,   *)
(* P <- C <- G (a parent, its inline children, their inline children).     *)
(* A bound form is a record [val, entries]; every entry of an inline list  *)
(* is itself such a form plus the submitted identifier, the delete_ flag   *)
(* and, when the form class carries that field, the submitted foreign key. *)
(***************************************************************************)
EXTENDS Integers, Sequences, FiniteSets, TLC

\* ------------------------------------------------------------------------
\* Bounds of the model
\* ------------------------------------------------------------------------
MaxEntries == 2      \* submitted inline entries of one form, all depths together
MaxCalls == 2        \* save_to calls made with one bound form
MaxStack == 4        \* nested calls of form() the interpreter allows

\* ------------------------------------------------------------------------
\* Values
\* ------------------------------------------------------------------------
NoId == 0                      \* Python None as a primary key / identifier
Vals == {"a", "b"}             \* values of the one data column of every model
FormIds == {NoId, 1, 2}        \* identifiers a submission may carry
FormFks == {{}, {2}}           \* submitted foreign key: {} when the form has no such field

\* ------------------------------------------------------------------------
\* The model graph: reverse relations (ModelListField of each form class)
\* ------------------------------------------------------------------------
has_inline(model) == model \in {"P", "C"}

submodel_of(model) == IF model = "P" THEN "C" ELSE "G"

\* ------------------------------------------------------------------------
\* The ORM operations save_to relies on
\* ------------------------------------------------------------------------
Row(m, id, fk, val) == [model |-> m, id |-> id, fk |-> fk, val |-> val]

Event(op, m, id, fk, sent, del) ==
    [op |-> op, model |-> m, id |-> id, fk |-> fk, sent |-> sent, del |-> del]

RECURSIVE cascade_rows(_, _, _)
\* the rows an ON DELETE CASCADE removes below (m, id)
cascade_rows(rows, m, id) ==
    IF ~has_inline(m) THEN {}
    ELSE LET kids == {r \in rows : r.model = submodel_of(m) /\ r.fk = id}
             RECURSIVE below(_)
             below(S) == IF S = {} THEN {}
                         ELSE LET k == CHOOSE k \in S : TRUE
                              IN cascade_rows(rows, k.model, k.id) \cup below(S \ {k})
         IN kids \cup below(kids)

\* Model.delete_instance(): DELETE ... WHERE id = pk
delete_instance(st, m, id, casc) ==
    LET gone == {r \in st.rows : r.model = m /\ r.id = id}
        below == IF casc /\ gone # {} THEN cascade_rows(st.rows, m, id) ELSE {}
    IN [st EXCEPT !.rows = (@ \ gone) \ below,
                  !.log = Append(@, Event("delete", m, id, NoId, {}, FALSE))]

\* Model.save() of an instance that has a primary key: UPDATE ... WHERE id = pk
save_update(st, m, id, fk, val) ==
    LET hit == {r \in st.rows : r.model = m /\ r.id = id}
    IN [st EXCEPT !.rows = (@ \ hit) \cup {Row(m, id, fk, val) : r \in hit},
                  !.log = Append(@, Event("update", m, id, fk, {}, FALSE))]

\* Model.save() of an instance without primary key: INSERT, the key is allocated
save_insert(st, m, fk, val) ==
    [st EXCEPT !.rows = @ \cup {Row(m, st.next[m], fk, val)},
               !.next = [@ EXCEPT ![m] = @ + 1],
               !.log = Append(@, Event("insert", m, st.next[m], fk, {}, FALSE))]

\* Model.save()
save(st, m, id, fk, val) ==
    IF id = NoId THEN save_insert(st, m, fk, val) ELSE save_update(st, m, id, fk, val)

raise(st, kind) ==
    [st EXCEPT !.err = kind,
               !.log = Append(@, Event("raise", kind, NoId, NoId, {}, FALSE))]

\* ------------------------------------------------------------------------
\* ModelForm.save_inlines
\* ------------------------------------------------------------------------
existing_of_any_parent(rows, m, parent_pk) == {x \in rows : x.model = m}

\* existing = {o._get_pk_value(): o for o in getattr(parent_obj, related_name)}
existing_of(rows, m, parent_pk) == {x \in rows : x.model = m /\ x.fk = parent_pk}

is_skipped_never(data) == FALSE

\* data.get('delete_') of an entry without identifier: the entry is skipped
is_skipped(data) == data.delete

is_deleted_never(data) == FALSE

\* data.get('delete_') of an entry for an existing child: the child is deleted
is_deleted(data) == data.delete

changes_parentage_unchecked(data, parent_pk) == FALSE

\* data.get(foreign_key_field.name, parent_pk) != parent_pk
changes_parentage(data, parent_pk) ==
    (IF data.fk = {} THEN parent_pk ELSE CHOOSE k \in data.fk : TRUE) # parent_pk

\* subform.populate_obj(subobj), as far as the foreign key goes: a form that
\* carries the foreign-key field writes it, any other leaves the attribute alone
populate_obj(data, fk) == IF data.fk = {} THEN fk ELSE CHOOSE k \in data.fk : TRUE

ModelListField_populate_obj_replacing(st, entries, m, pk) ==
    [st EXCEPT !.rows =
        {r \in @ : ~(/\ has_inline(m)
                     /\ r.model = submodel_of(m) /\ r.fk = pk
                     /\ r.id \notin {entries[k].id : k \in DOMAIN entries})}]

\* ModelListField.populate_obj(obj, name), which form.populate_obj(obj) calls
\* for the inline list of the form: it does nothing
ModelListField_populate_obj(st, entries, m, pk) == st

RECURSIVE save_inlines(_, _, _, _, _)
RECURSIVE save_entries(_, _, _, _, _, _, _)

\* the body of "for formfield in field.entries", from entry i on
save_entries(entries, i, m, parent_pk, existing, st, casc) ==
    IF st.err # "ok" \/ i > Len(entries) THEN st
    ELSE
      LET data == entries[i]
          seen == [st EXCEPT !.log =
                      Append(@, Event("visit", m, data.id, parent_pk, data.fk, data.delete))]
          \* if subobj: populate_obj, save, save_inlines
          keep(s, fk) ==
              LET pk == IF data.id = NoId THEN s.next[m] ELSE data.id
                  saved == save(ModelListField_populate_obj(s, data.entries, m, data.id),
                                m, data.id, populate_obj(data, fk), data.val)
              IN save_inlines(data, m, pk, saved, casc)
          after ==
              IF data.id = NoId
              THEN IF is_skipped(data) THEN seen ELSE keep(seen, parent_pk)
              ELSE IF data.id \notin {o.id : o \in existing}
                   THEN raise(seen, "foreign_child")
              ELSE IF changes_parentage(data, parent_pk) THEN raise(seen, "reparent")
              ELSE IF is_deleted(data) THEN delete_instance(seen, m, data.id, casc)
              ELSE keep(seen, (CHOOSE o \in existing : o.id = data.id).fk)
      IN save_entries(entries, i + 1, m, parent_pk, existing, after, casc)

save_inlines(parent_form, model, parent_pk, st, casc) ==
    IF ~has_inline(model) THEN st
    ELSE save_entries(parent_form.entries, 1, submodel_of(model), parent_pk,
                      existing_of(st.rows, submodel_of(model), parent_pk), st, casc)

\* ------------------------------------------------------------------------
\* ModelForm.save_to
\* ------------------------------------------------------------------------
atomic_without_rollback(before, st) == [rows |-> st.rows, next |-> st.next]

\* with obj._meta.database.atomic(): an exception rolls the transaction back
atomic(before, st) ==
    IF st.err = "ok" THEN [rows |-> st.rows, next |-> st.next] ELSE before

save_to(frm, o, rs, nx, casc) ==
    LET st0 == [rows |-> rs, next |-> nx, err |-> "ok", log |-> <<>>]
        pk == IF o.pk = NoId THEN nx["P"] ELSE o.pk
        saved == save(ModelListField_populate_obj(st0, frm.entries, "P", o.pk),
                      "P", o.pk, NoId, frm.val)
    IN [st |-> save_inlines(frm, "P", pk, saved, casc),
        obj |-> [pk |-> pk, val |-> frm.val]]

\* ------------------------------------------------------------------------
\* Submissions
\* ------------------------------------------------------------------------
\* one submitted entry, before its own inline list is filled in; the value of an
\* entry flagged delete_ is never read, so one value stands for all of them
Heads ==
    {h \in [id : FormIds, delete : BOOLEAN, fk : FormFks, val : Vals, entries : {<<>>}] :
        h.delete => h.val = "a"}

RECURSIVE Size(_)
\* number of entries of a list of entries, nested ones included
Size(entries) ==
    IF entries = <<>> THEN 0 ELSE 1 + Size(Head(entries).entries) + Size(Tail(entries))

RECURSIVE Lists(_, _)
\* the lists of entries of at most n entries in all, for the inline list at depth d
Lists(n, d) ==
    IF n = 0 THEN {<<>>}
    ELSE {<<>>} \cup UNION {
           {<<[h EXCEPT !.entries = sub]>> \o rest :
                h \in Heads, rest \in Lists(n - 1 - Size(sub), d)} :
           sub \in (IF d = 2 THEN {<<>>} ELSE Lists(n - 1, d + 1))}

Forms == [val : Vals, entries : Lists(MaxEntries, 1)]

\* ------------------------------------------------------------------------
\* ModelConverter: the type tables
\* ------------------------------------------------------------------------
\* the peewee field classes orm.py imports, a class of the library that no
\* table names (UUIDField) and a class of the application (CustomField)
FieldTypes ==
    {"BareField", "BigIntegerField", "BlobField", "BooleanField", "CharField",
     "DateField", "DateTimeField", "DecimalField", "DoubleField", "FloatField",
     "ForeignKeyField", "IntegerField", "PrimaryKeyField", "TextField",
     "TimeField", "TimestampField", "UUIDField", "CustomField"}

\* the base class of a field class, "Field" for the direct subclasses of Field
base_of(t) ==
    IF t \in {"BigIntegerField", "PrimaryKeyField", "ForeignKeyField", "TimestampField"}
    THEN "IntegerField"
    ELSE IF t = "DoubleField" THEN "FloatField" ELSE "Field"

\* isinstance(field, cls) for a field of class t
isinstance(t, cls) == t = cls \/ base_of(t) = cls

\* ModelConverter.defaults, in the order of the OrderedDict
defaults ==
    << <<"BareField", "f.TextField">>,
       <<"BigIntegerField", "f.IntegerField">>,
       <<"BlobField", "f.TextAreaField">>,
       <<"BooleanField", "f.BooleanField">>,
       <<"CharField", "f.TextField">>,
       <<"DateField", "WPDateField">>,
       <<"DateTimeField", "WPDateTimeField">>,
       <<"DecimalField", "f.DecimalField">>,
       <<"DoubleField", "f.FloatField">>,
       <<"FloatField", "f.FloatField">>,
       <<"PrimaryKeyField", "HiddenIntegerField">>,
       <<"IntegerField", "f.IntegerField">>,
       <<"TextField", "f.TextAreaField">>,
       <<"TimeField", "WPTimeField">>,
       <<"TimestampField", "WPDateTimeField">> >>

\* ModelConverter.coerce_defaults
coerce_defaults ==
    [t \in {"BigIntegerField", "CharField", "DoubleField", "FloatField",
            "IntegerField", "TextField"} |->
        IF t \in {"BigIntegerField", "IntegerField"} THEN "int"
        ELSE IF t \in {"DoubleField", "FloatField"} THEN "float" ELSE "text_type"]

\* ModelConverter.required
required ==
    {"CharField", "DateTimeField", "ForeignKeyField", "PrimaryKeyField", "TextField"}

is_required(t) == \E cls \in required : isinstance(t, cls)

\* issubclass(widget, f.FormField)
is_form_field(widget) == widget = "WPDateTimeField"

\* ModelConverter.__init__: the converters, the handler of ForeignKeyField first
converters_of(additional) ==
    <<"ForeignKeyField">> \o
        (IF "CustomField" \in additional THEN <<"CustomField">> ELSE <<>>)

\* ------------------------------------------------------------------------
\* ModelConverter.convert
\* ------------------------------------------------------------------------
One(S) == CHOOSE x \in S : TRUE

\* bool(x) of an optional list: None and the empty list are false
truthy(S) == S # {} /\ S # {<<>>}

FieldInfo(name, widget, rule, kw) ==
    [status |-> "ok", name |-> name, widget |-> widget, rule |-> rule,
     validators |-> kw.validators, filters |-> kw.filters,
     choices |-> kw.choices, coerce |-> kw.coerce,
     allow_blank |-> kw.allow_blank, message |-> ""]

Raised(exc, message) ==
    [status |-> exc, name |-> "", widget |-> "", rule |-> "none",
     validators |-> <<>>, filters |-> <<>>, choices |-> {}, coerce |-> {},
     allow_blank |-> {}, message |-> message]

\* the keyword arguments after field_args was merged in and the validators
\* and filters of the field were appended
kwargs_of(field, field_args) ==
    LET vs == IF field_args.validators = {} THEN <<>> ELSE One(field_args.validators)
        fs == IF field_args.filters = {} THEN <<>> ELSE One(field_args.filters)
        optional == (field.null \/ field.default # {}) /\ ~truthy(field.choices)
    IN [validators |-> IF optional THEN Append(vs, "Optional")
                       ELSE IF is_required(field.type) THEN Append(vs, "Required")
                       ELSE vs,
        filters |-> IF field.null THEN Append(fs, "handle_null_filter") ELSE fs,
        choices |-> field_args.choices,
        coerce |-> field_args.coerce,
        allow_blank |-> field_args.allow_blank]

\* ModelConverter.handle_foreign_key
handle_foreign_key(field, kw) ==
    LET kw1 == IF field.null THEN [kw EXCEPT !.allow_blank = {TRUE}] ELSE kw
    IN IF field.choices # {}
       THEN FieldInfo(field.name, "SelectQueryField", "converter", kw1)
       ELSE FieldInfo(field.name, "ModelSelectField", "converter", kw1)

\* the entry of the default table found for the field: "for converter in self.defaults"
RECURSIVE default_for(_, _)
default_for(t, i) ==
    IF i > Len(defaults) THEN 0
    ELSE IF isinstance(t, defaults[i][1]) THEN i ELSE default_for(t, i + 1)

\* the body of the loop over the default table, for the entry i that matches
convert_default(conv, field, kw, i) ==
    LET converter == defaults[i][1]
        widget == defaults[i][2]
        kw1 == IF is_form_field(widget) THEN [kw EXCEPT !.filters = <<>>] ELSE kw
        given == truthy(field.choices) \/ kw1.choices # {}
        choices == IF kw1.choices # {} THEN kw1.choices ELSE field.choices
        popped == [kw1 EXCEPT !.choices = {}]
        settings == conv.coerce_settings
    IN IF given /\ (converter \in DOMAIN settings \/ kw1.coerce # {})
       THEN IF converter \notin DOMAIN settings
            THEN Raised("KeyError", converter)
            ELSE FieldInfo(field.name, "SelectChoicesField", "default",
                    [popped EXCEPT
                        !.choices = choices,
                        !.coerce = IF kw1.coerce # {} THEN kw1.coerce
                                   ELSE {settings[converter]},
                        !.allow_blank = IF kw1.allow_blank # {} THEN kw1.allow_blank
                                        ELSE {field.null}])
       ELSE FieldInfo(field.name, widget, "default", IF given THEN popped ELSE kw1)

\* the first converter of self.converters the field is an instance of
RECURSIVE converter_for(_, _, _)
converter_for(cs, t, i) ==
    IF i > Len(cs) THEN 0
    ELSE IF isinstance(t, cs[i]) THEN i ELSE converter_for(cs, t, i + 1)

rule_of_hook_first(conv, field) ==
    IF field.wtf_field THEN "hook"
    ELSE IF field.name \in conv.overrides THEN "override"
    ELSE IF converter_for(conv.converters, field.type, 1) # 0 THEN "converter"
    ELSE IF default_for(field.type, 1) # 0 THEN "default"
    ELSE "none"

\* the order in which convert tries its rules: the override of the field name,
\* the wtf_field hook of the field, self.converters, self.defaults
rule_of(conv, field) ==
    IF field.name \in conv.overrides THEN "override"
    ELSE IF field.wtf_field THEN "hook"
    ELSE IF converter_for(conv.converters, field.type, 1) # 0 THEN "converter"
    ELSE IF default_for(field.type, 1) # 0 THEN "default"
    ELSE "none"

unconvertible_by_name(field) == Raised("AttributeError", field.name)

\* raise AttributeError("There is not possible conversion for '%s'" % type(field))
unconvertible(field) == Raised("AttributeError", field.type)

convert(conv, field, field_args) ==
    LET kw == kwargs_of(field, field_args)
        rule == rule_of(conv, field)
        c == converter_for(conv.converters, field.type, 1)
    IN IF rule = "override" THEN FieldInfo(field.name, "override", "override", kw)
       ELSE IF rule = "hook" THEN FieldInfo(field.name, "wtf_field", "hook", kw)
       ELSE IF rule = "converter"
       THEN IF conv.converters[c] = "ForeignKeyField"
            THEN handle_foreign_key(field, kw)
            ELSE FieldInfo(field.name, "additional", "converter", kw)
       ELSE IF rule = "default"
       THEN convert_default(conv, field, kw, default_for(field.type, 1))
       ELSE unconvertible(field)

\* the caller's field_args after convert: the list of validators is copied
\* before it is appended to only when it is not empty, the list of filters never
field_args_after(field, field_args) ==
    LET kw == kwargs_of(field, field_args)
    IN [field_args EXCEPT
          !.validators = IF @ = {<<>>} THEN {kw.validators} ELSE @,
          !.filters = IF @ = {} THEN @ ELSE {kw.filters}]

\* ------------------------------------------------------------------------
\* Inputs of convert
\* ------------------------------------------------------------------------
Fields ==
    [name : {"plain", "special"}, type : FieldTypes, null : BOOLEAN,
     default : {{}, {"d"}}, choices : {{}, {<<>>}, {<<"x">>}},
     wtf_field : BOOLEAN]

FieldArgs ==
    [validators : {{}, {<<>>}, {<<"Length">>}}, filters : {{}, {<<"strip">>}},
     choices : {{}, {<<"y">>}}, coerce : {{}, {"fn"}}, allow_blank : {{}, {TRUE}}]

Converters ==
    {[converters |-> converters_of(additional),
      coerce_settings |-> coerce_defaults,
      overrides |-> {"special"}] : additional \in {{}, {"CustomField"}}}

\* ------------------------------------------------------------------------
\* ModelConverter.convert_fields and ModelConverter.form
\* ------------------------------------------------------------------------
\* Model classes and their foreign keys: the key <<o, t>> is a field of model o
\* that refers to model t; its related_name names the collection on t.
Models == {"A", "B"}

Edges == Models \X Models

fk_name(e) ==
    IF e = <<"A", "A">> THEN "aa" ELSE IF e = <<"A", "B">> THEN "ab"
    ELSE IF e = <<"B", "A">> THEN "ba" ELSE "bb"

related_name(e) ==
    IF e = <<"A", "A">> THEN "aa_set" ELSE IF e = <<"A", "B">> THEN "ab_set"
    ELSE IF e = <<"B", "A">> THEN "ba_set" ELSE "bb_set"

\* sorted(model._meta.reverse_rel.items()) of model m in the graph g
SortedEdges == << <<"A", "A">>, <<"A", "B">>, <<"B", "A">>, <<"B", "B">> >>

reverse_rel(g, m) == SelectSeq(SortedEdges, LAMBDA e : e \in g /\ e[2] = m)

\* model._meta.sorted_fields of model m, the primary key first
sorted_fields(g, m) ==
    <<"id", "val">> \o
        [i \in 1..Len(SelectSeq(SortedEdges, LAMBDA e : e \in g /\ e[1] = m)) |->
            fk_name(SelectSeq(SortedEdges, LAMBDA e : e \in g /\ e[1] = m)[i])]

\* [n[len(name)+1:] for n in names if n.startswith(name + '.')], a dotted name
\* being the sequence of its parts
sub_names(names, name) == {Tail(n) : n \in {x \in names : Len(x) >= 2 /\ x[1] = name}}

\* the filter of "if only: ... elif exclude: ..." on a plain name
kept(name, only, exclude) ==
    IF only # {} THEN <<name>> \in only
    ELSE IF exclude # {} THEN <<name>> \notin exclude
    ELSE TRUE

\* the frame of one call of form(), which calls convert_fields(): the model
\* fields it converts and the inlines it still has to generate
Frame(g, m, allow_pk, only, exclude, include_inlines, depth) ==
    LET fields == IF allow_pk THEN sorted_fields(g, m) ELSE Tail(sorted_fields(g, m))
        names == {fields[i] : i \in DOMAIN fields}
    IN [model |-> m, only |-> only, exclude |-> exclude, depth |-> depth,
        fields |-> {n \in names : kept(n, only, exclude)},
        todo |-> IF include_inlines
                 THEN SelectSeq(reverse_rel(g, m),
                                LAMBDA e : kept(related_name(e), only, exclude))
                 ELSE <<>>]

\* the call self.form(foreign_key_field.model_class, ...) for the inline e
inline_frame(g, parent, e) ==
    Frame(g, e[1], TRUE,
          sub_names(parent.only, related_name(e)),
          sub_names(parent.exclude, related_name(e)) \cup {<<fk_name(e)>>},
          TRUE, parent.depth + 1)

\* the only and exclude arguments of model_form
Names == {related_name(e) : e \in Edges}

\* a plain name of an inline, or a dotted name '<inline>.<name>' whose second
\* part names an inline or a foreign key of the inline's model
Paths ==
    {<<n>> : n \in Names}
        \cup {<<n, k>> : n \in Names, k \in Names \cup {fk_name(e) : e \in Edges}}

NameLists ==
    {{}} \cup {{q} : q \in Paths} \cup {{<<q[1]>>, q} : q \in {x \in Paths : Len(x) = 2}}

\* ------------------------------------------------------------------------
\* SelectQueryField and SelectChoicesField
\* ------------------------------------------------------------------------
\* The keys of a queryset and the values of a list of choices are integers; a
\* submitted value is a string. An optional value is a set: {} is None.
Submittable == {"__None", "1", "2", "3", "x"}

\* int(value) succeeds
coercible(v) == v \in {"1", "2", "3"}

\* int(value)
coerce(v) == IF v = "1" THEN 1 ELSE IF v = "2" THEN 2 ELSE 3

\* SelectQueryField.get_model: the object of the queryset with that key, or None
get_model(f, key) ==
    IF coercible(key) /\ coerce(key) \in f.choices THEN {coerce(key)} ELSE {}

\* SelectQueryField._get_data: a pending submitted key is looked up first
data_of(f) ==
    IF f.kind = "query" /\ f.formdata # {} THEN get_model(f, One(f.formdata))
    ELSE f.data

\* process_formdata(valuelist) of the two fields; a ValueError it raises is
\* recorded by Field.process as a process error
process_formdata(f, valuelist) ==
    IF valuelist = <<>> THEN f
    ELSE IF valuelist[1] = "__None" THEN [f EXCEPT !.data = {}, !.formdata = {}]
    ELSE IF f.kind = "query"
    THEN [f EXCEPT !.data = {}, !.formdata = {valuelist[1]}]
    ELSE IF coercible(valuelist[1])
    THEN [f EXCEPT !.data = {coerce(valuelist[1])}]
    ELSE [f EXCEPT !.errors = Append(@, "Invalid Choice: could not coerce")]

\* pre_validate(form) of the two fields: the errors it adds
pre_validate(f) ==
    LET data == data_of(f)
    IN IF f.kind = "query"
       THEN IF data # {}
            THEN IF One(data) \in f.choices THEN <<>> ELSE <<"Not a valid choice">>
            ELSE IF ~f.allow_blank THEN <<"Selection cannot be blank">> ELSE <<>>
       ELSE IF f.allow_blank /\ data = {} THEN <<>>
            ELSE IF data # {} /\ One(data) \in f.choices THEN <<>>
            ELSE <<"Not a valid choice">>

SelectFields ==
    [kind : {"query", "choices"}, allow_blank : BOOLEAN,
     choices : {{1}, {2}, {1, 2}}, data : {{}, {1}, {2}},
     formdata : {{}}, errors : {<<>>}, phase : {"bound"}, valid : {FALSE}]

\* ------------------------------------------------------------------------
\* State
\* ------------------------------------------------------------------------
VARIABLES
    rows, next, cascade, bound, form, obj, calls, pre, result, log,   \* save_to
    cfield, cargs, cconv, cout, cafter,                               \* convert
    graph, stack, status,                                             \* form
    sel, sraw                                                         \* select fields

saveVars == <<rows, next, cascade, bound, form, obj, calls, pre, result, log>>

convVars == <<cfield, cargs, cconv, cout, cafter>>

genVars == <<graph, stack, status>>

selVars == <<sel, sraw>>

vars == <<saveVars, convVars, genVars, selVars>>

SeedRows ==
    {Row("P", 1, NoId, "a"), Row("P", 2, NoId, "a"),
     Row("C", 1, 1, "a"), Row("C", 2, 2, "a"), Row("C", 3, 1, "a"),
     Row("G", 1, 1, "a"), Row("G", 2, 2, "a")}

SeedNext == [m \in {"P", "C", "G"} |-> IF m = "C" THEN 4 ELSE 3]

Pending == Raised("pending", "")

\* no form is bound and no row was saved yet
SaveIdle ==
    /\ rows = SeedRows
    /\ next = SeedNext
    /\ bound = FALSE
    /\ form = [val |-> "a", entries |-> <<>>]
    /\ obj = [pk |-> NoId, val |-> "a"]
    /\ calls = 0
    /\ pre = SeedRows
    /\ result = "none"
    /\ log = <<>>

\* convert was not called
ConvIdle ==
    /\ cout = Pending
    /\ cafter = cargs

\* model_form was not called
GenIdle ==
    /\ graph = {}
    /\ stack = <<>>
    /\ status = "idle"

\* no select field was bound
SelIdle ==
    /\ sel = CHOOSE f \in SelectFields : TRUE
    /\ sraw = <<>>

Init ==
    /\ SaveIdle
    /\ cascade \in BOOLEAN
    /\ cfield = CHOOSE f \in Fields : TRUE
    /\ cargs = CHOOSE a \in FieldArgs : TRUE
    /\ cconv = CHOOSE c \in Converters : TRUE
    /\ ConvIdle
    /\ GenIdle
    /\ SelIdle

\* the instances a view hands to the form: a loaded parent or a fresh one
Instances ==
    {[pk |-> r.id, val |-> r.val] : r \in {x \in rows : x.model = "P"}}
        \cup {[pk |-> NoId, val |-> "a"]}

\* ModelForm.process(formdata, obj): the form is bound to a submission
Process ==
    /\ ~bound
    /\ \E f \in Forms, o \in Instances :
          /\ form' = f
          /\ obj' = o
    /\ bound' = TRUE
    /\ UNCHANGED <<rows, next, cascade, calls, pre, result, log>>
    /\ UNCHANGED <<convVars, genVars, selVars>>

\* form.save_to(obj)
SaveTo ==
    /\ bound
    /\ calls < MaxCalls
    /\ LET out == save_to(form, obj, rows, next, cascade)
           db == atomic([rows |-> rows, next |-> next], out.st)
       IN /\ rows' = db.rows
          /\ next' = db.next
          /\ obj' = out.obj
          /\ result' = out.st.err
          /\ log' = out.st.log
    /\ pre' = rows
    /\ calls' = calls + 1
    /\ UNCHANGED <<cascade, bound, form>>
    /\ UNCHANGED <<convVars, genVars, selVars>>

Next == Process \/ SaveTo

Spec == Init /\ [][Next]_vars

\* ------------------------------------------------------------------------
\* convert applied to every field, field_args and converter
\* ------------------------------------------------------------------------
InitConvert ==
    /\ SaveIdle
    /\ cascade = FALSE
    /\ cfield \in Fields
    /\ cargs \in FieldArgs
    /\ cconv \in Converters
    /\ ConvIdle
    /\ GenIdle
    /\ SelIdle

\* converter.convert(model, field, field_args)
Convert ==
    /\ cout = Pending
    /\ cout' = convert(cconv, cfield, cargs)
    /\ cafter' = field_args_after(cfield, cargs)
    /\ UNCHANGED <<cfield, cargs, cconv>>
    /\ UNCHANGED <<saveVars, genVars, selVars>>

NextConvert == Convert

SpecConvert == InitConvert /\ [][NextConvert]_vars

\* ------------------------------------------------------------------------
\* model_form(model, only, exclude, include_inlines), one call of form() a step
\* ------------------------------------------------------------------------
InitForm ==
    /\ SaveIdle
    /\ cascade = FALSE
    /\ cfield = CHOOSE f \in Fields : TRUE
    /\ cargs = CHOOSE a \in FieldArgs : TRUE
    /\ cconv = CHOOSE c \in Converters : TRUE
    /\ ConvIdle
    /\ graph \in SUBSET Edges
    /\ \E m \in Models, inl \in BOOLEAN, only \in NameLists, exclude \in NameLists :
          /\ only = {} \/ exclude = {}
          /\ stack = <<Frame(graph, m, FALSE, only, exclude, inl, 0)>>
    /\ status = "running"
    /\ SelIdle

\* convert_fields reaches the next inline and calls self.form() for it
FormCall ==
    /\ status = "running"
    /\ Len(stack) < MaxStack
    /\ stack[Len(stack)].todo # <<>>
    /\ stack' = Append(stack,
                       inline_frame(graph, stack[Len(stack)],
                                    Head(stack[Len(stack)].todo)))
    /\ UNCHANGED <<graph, status>>
    /\ UNCHANGED <<saveVars, convVars, selVars>>

\* the interpreter has no frame left for the call: RecursionError
FormOverflow ==
    /\ status = "running"
    /\ Len(stack) = MaxStack
    /\ stack[Len(stack)].todo # <<>>
    /\ status' = "RecursionError"
    /\ UNCHANGED <<graph, stack>>
    /\ UNCHANGED <<saveVars, convVars, selVars>>

\* convert_fields has generated every inline: form() returns the form class
FormReturn ==
    /\ status = "running"
    /\ stack[Len(stack)].todo = <<>>
    /\ IF Len(stack) = 1
       THEN /\ status' = "done"
            /\ stack' = stack
       ELSE /\ status' = status
            /\ stack' = [SubSeq(stack, 1, Len(stack) - 1) EXCEPT
                            ![Len(stack) - 1].todo = Tail(@)]
    /\ UNCHANGED graph
    /\ UNCHANGED <<saveVars, convVars, selVars>>

NextForm == FormCall \/ FormOverflow \/ FormReturn

SpecForm == InitForm /\ [][NextForm]_vars

\* ------------------------------------------------------------------------
\* A select field of a form: bound to a submission, then validated
\* ------------------------------------------------------------------------
InitSelect ==
    /\ SaveIdle
    /\ cascade = FALSE
    /\ cfield = CHOOSE f \in Fields : TRUE
    /\ cargs = CHOOSE a \in FieldArgs : TRUE
    /\ cconv = CHOOSE c \in Converters : TRUE
    /\ ConvIdle
    /\ GenIdle
    /\ sel \in SelectFields
    /\ sraw \in {<<>>} \cup {<<v>> : v \in Submittable}

\* Field.process(formdata, data): process_data, then process_formdata
SelectProcess ==
    /\ sel.phase = "bound"
    /\ sel' = [process_formdata(sel, sraw) EXCEPT !.phase = "processed"]
    /\ UNCHANGED sraw
    /\ UNCHANGED <<saveVars, convVars, genVars>>

\* Field.validate(form): the process errors, then pre_validate
SelectValidate ==
    /\ sel.phase = "processed"
    /\ sel' = [sel EXCEPT !.phase = "validated",
                          !.data = data_of(sel),
                          !.formdata = {},
                          !.errors = @ \o pre_validate(sel),
                          !.valid = (sel.errors \o pre_validate(sel)) = <<>>]
    /\ UNCHANGED sraw
    /\ UNCHANGED <<saveVars, convVars, genVars>>

NextSelect == SelectProcess \/ SelectValidate

SpecSelect == InitSelect /\ [][NextSelect]_vars

\* ------------------------------------------------------------------------
\* Properties of save_to
\* ------------------------------------------------------------------------
Saved == calls > 0

Failed == result \in {"foreign_child", "reparent"}

\* the row of (m, id), owned by parent fk, as save_to found it or as it made it
\* before step i of the log
Owned(i, m, id, fk) ==
    \/ \E r \in pre : r.model = m /\ r.id = id /\ r.fk = fk
    \/ \E j \in 1..(i - 1) :
          /\ log[j].op \in {"insert", "update"}
          /\ log[j].model = m /\ log[j].id = id /\ log[j].fk = fk

\* step i of the log is the visit of an entry whose identifier is set and is
\* not the key of a record of the parent's related set
ForeignVisit(i) ==
    /\ log[i].op = "visit"
    /\ log[i].id # NoId
    /\ ~Owned(i, log[i].model, log[i].id, log[i].fk)

\* step i of the log is the visit of an entry for a child of the parent that
\* carries a foreign key other than the parent's primary key
ReparentVisit(i) ==
    /\ log[i].op = "visit"
    /\ log[i].id # NoId
    /\ \E r \in pre : r.model = log[i].model /\ r.id = log[i].id /\ r.fk = log[i].fk
    /\ log[i].sent # {}
    /\ log[i].sent # {log[i].fk}

\* C1: a save_to that processes an entry whose identifier is set but is not the
\* key of a record of the parent's related set raises the ownership error, and
\* every record owned by another parent is afterwards as it was before.
C1_ForeignChildRejected ==
    Saved => \A i \in DOMAIN log :
        ForeignVisit(i) =>
            /\ result = "foreign_child"
            /\ \A r \in pre :
                  (r.model = log[i].model /\ r.fk # log[i].fk) => r \in rows

C1_Witness ==
    /\ Saved
    /\ result = "foreign_child"
    /\ \E i \in DOMAIN log :
          /\ ForeignVisit(i)
          /\ \E r \in pre :
                r.model = log[i].model /\ r.id = log[i].id /\ r.fk # log[i].fk

\* C2: an entry for an existing child of the parent that carries a foreign key
\* other than the parent's primary key makes save_to raise and leaves the
\* child's foreign key alone; no save_to changes the parent of a record that
\* existed before it.
C2_NoReparenting ==
    Saved =>
        /\ \A i \in DOMAIN log : ReparentVisit(i) => Failed
        /\ \A r \in pre : \A q \in rows :
              (q.model = r.model /\ q.id = r.id) => q.fk = r.fk

C2_Witness ==
    /\ Saved
    /\ result = "reparent"
    /\ \E i \in DOMAIN log : ReparentVisit(i)
    /\ \E j \in DOMAIN log : log[j].op = "update" /\ log[j].model = "C"

\* C3: a save_to that raises leaves the persisted rows as they were before the
\* call, whatever it had saved before the error.
C3_Atomic == Failed => rows = pre

C3_Witness ==
    /\ Failed
    /\ rows = pre
    /\ \E j \in DOMAIN log : log[j].op = "update" /\ log[j].model = "P"
    /\ \E j \in DOMAIN log : log[j].op \in {"insert", "update", "delete"}
                                /\ log[j].model = "C"
    /\ \E j \in DOMAIN log : log[j].op = "visit" /\ log[j].model = "G"

\* C4 (linkage): after a successful save_to, the record created for an entry
\* with unset identifier has the parent's primary key as its foreign key.
C4_NewChildLinked ==
    result = "ok" => \A i \in DOMAIN log :
        (log[i].op = "visit" /\ log[i].id = NoId /\ ~log[i].del) =>
            /\ i < Len(log)
            /\ log[i + 1].op = "insert"
            /\ \E r \in rows : /\ r.model = log[i].model
                                 /\ r.id = log[i + 1].id
                                 /\ r.fk = log[i].fk

\* C5: after a successful save_to, no entry that carried the delete flag and
\* the identifier of a child of the parent has its record left in the parent's
\* related set.
C5_DeletedIsGone ==
    result = "ok" => \A i \in DOMAIN log :
        (log[i].op = "visit" /\ log[i].id # NoId /\ log[i].del) =>
            ~\E r \in rows :
                r.model = log[i].model /\ r.id = log[i].id /\ r.fk = log[i].fk

C5_Witness ==
    /\ result = "ok"
    /\ \E i, j \in DOMAIN log :
          /\ i < j
          /\ log[i].op = "visit" /\ log[j].op = "visit"
          /\ log[i].id # NoId /\ log[i].del /\ ~log[j].del
          /\ log[j].model = log[i].model /\ log[j].id = log[i].id
    /\ \E r \in pre : \E i \in DOMAIN log :
          /\ log[i].op = "visit" /\ log[i].del
          /\ r.model = log[i].model /\ r.id = log[i].id

RECURSIVE NoNewEntry(_)
\* no entry of the list, at any depth, asks for a new record
NoNewEntry(entries) ==
    \A k \in DOMAIN entries :
        /\ entries[k].id = NoId => entries[k].delete
        /\ NoNewEntry(entries[k].entries)

\* C6 as stated: the second save_to of a form leaves the persisted rows as the
\* first left them.
C6_Idempotent == calls >= 2 => rows = pre

\* C6 amended: a form none of whose entries asks for a new record is saved
\* idempotently: a further save_to leaves the rows as the one before left them.
C6_IdempotentWithoutNew == (calls >= 2 /\ NoNewEntry(form.entries)) => rows = pre

C6_Witness ==
    /\ calls >= 2
    /\ NoNewEntry(form.entries)
    /\ result = "ok"
    /\ rows = pre
    /\ rows # SeedRows
    /\ \E j \in DOMAIN log : log[j].op = "update" /\ log[j].model = "C"

\* ------------------------------------------------------------------------
\* Properties of convert
\* ------------------------------------------------------------------------
Converted == cout.status # "pending"

Overridden == cfield.name \in cconv.overrides

Hooked == cfield.wtf_field

HasConverter ==
    \E i \in DOMAIN cconv.converters : isinstance(cfield.type, cconv.converters[i])

InDefaults == \E i \in DOMAIN defaults : isinstance(cfield.type, defaults[i][1])

\* C7: the form field convert makes for a nullable model field carries the
\* Optional validator and no Required validator.
C7_NullableIsOptional ==
    (Converted /\ cout.status = "ok" /\ cfield.null) =>
        /\ \E i \in DOMAIN cout.validators : cout.validators[i] = "Optional"
        /\ \A i \in DOMAIN cout.validators : cout.validators[i] # "Required"

\* C8: generating a form with its inline forms never exhausts the call stack:
\* the recursion of form() through the related collections ends.
C8_FormTerminates == status # "RecursionError"

\* C9: convert uses the override of the field name if there is one; otherwise
\* the wtf_field hook of the field; otherwise the foreign-key handling (a
\* query-select when the field has choices, a model-select otherwise) or an
\* additional converter; and the default table only when none of these applies.
C9_Precedence ==
    Converted =>
        /\ Overridden => cout.widget = "override"
        /\ (~Overridden /\ Hooked) => cout.widget = "wtf_field"
        /\ (~Overridden /\ ~Hooked /\ cfield.type = "ForeignKeyField") =>
              cout.widget = IF cfield.choices # {} THEN "SelectQueryField"
                            ELSE "ModelSelectField"
        /\ (~Overridden /\ ~Hooked /\ HasConverter
                /\ cfield.type # "ForeignKeyField") => cout.widget = "additional"
        /\ cout.rule = "default" => (~Overridden /\ ~Hooked /\ ~HasConverter)
        /\ (~Overridden /\ ~Hooked /\ ~HasConverter /\ InDefaults) =>
              (cout.rule = "default" \/ cout.status = "KeyError")

C9_Witness ==
    /\ Converted
    /\ Overridden /\ Hooked /\ HasConverter /\ InDefaults
    /\ cfield.type = "ForeignKeyField"
    /\ cout.status = "ok"
    /\ cout.widget = "override"

Unconvertible == ~Overridden /\ ~Hooked /\ ~HasConverter /\ ~InDefaults

\* C10 as stated: for a field that no rule matches convert raises the
\* unconvertible-field error with the name of the field in it, and makes no
\* form field.
C10_ErrorNamesField ==
    (Converted /\ Unconvertible) =>
        /\ cout.status = "AttributeError"
        /\ cout.message = cfield.name
        /\ cout.widget = ""

\* C10 amended: for a field that no rule matches convert raises the
\* unconvertible-field error with the class of the field in it, and makes no
\* form field.
C10_ErrorNamesFieldClass ==
    (Converted /\ Unconvertible) =>
        /\ cout.status = "AttributeError"
        /\ cout.message = cfield.type
        /\ cout.widget = ""

C10_Witness ==
    /\ Converted
    /\ Unconvertible
    /\ cfield.type = "UUIDField"
    /\ cout.status = "AttributeError"
    /\ cout.message = "UUIDField"

\* ------------------------------------------------------------------------
\* Properties of the select fields
\* ------------------------------------------------------------------------
\* the submitted value is one of the choices the field offers
IsChoice(f, v) ==
    \/ v = "__None" /\ f.allow_blank
    \/ coercible(v) /\ coerce(v) \in f.choices

\* C11: a select field that was submitted a value that is not one of its
\* choices does not validate, with or without allow_blank.
C11_BadChoiceIsInvalid ==
    (sel.phase = "validated" /\ sraw # <<>> /\ ~IsChoice(sel, sraw[1])) => ~sel.valid

\* ------------------------------------------------------------------------
\* Properties of the recursion of save_inlines
\* ------------------------------------------------------------------------
\* step j of the log populates, saves or recurses into the child (m, id)
Touches(j, m, id) ==
    \/ log[j].op \in {"insert", "update"} /\ log[j].model = m /\ log[j].id = id
    \/ /\ has_inline(m)
       /\ log[j].op \in {"visit", "insert", "update"}
       /\ log[j].model = submodel_of(m)
       /\ log[j].fk = id

\* C12: after a successful save_to, every entry visited under a child follows
\* the save of that child, and a child the save deleted is afterwards neither
\* saved again nor recursed into: nothing is created or updated under it.
C12_RecursesIntoSurvivors ==
    result = "ok" =>
        /\ \A j \in DOMAIN log :
              (log[j].op = "visit" /\ log[j].model = "G") =>
                  \E i \in 1..(j - 1) :
                      /\ log[i].op \in {"insert", "update"}
                      /\ log[i].model = "C" /\ log[i].id = log[j].fk
        /\ \A i \in DOMAIN log :
              log[i].op = "delete" =>
                  \A j \in (i + 1)..Len(log) : ~Touches(j, log[i].model, log[i].id)

\* the parent is saved first and each child is saved before the entries of its
\* own nested collection are visited
SavedBeforeChildren ==
    /\ log # <<>>
    /\ log[1].model = "P" /\ log[1].op \in {"insert", "update"} /\ log[1].id = obj.pk
    /\ \A j \in DOMAIN log :
          /\ (log[j].op = "visit" /\ log[j].model = "C") =>
                (j > 1 /\ log[j].fk = obj.pk)
          /\ (log[j].op = "visit" /\ log[j].model = "G") =>
                \E i \in 2..(j - 1) :
                    /\ log[i].op \in {"insert", "update"}
                    /\ log[i].model = "C" /\ log[i].id = log[j].fk

\* C13: after a successful save_to, the parent was saved before any child was
\* processed and each child before its own children, and every record the save
\* created is linked to the primary key its parent has after being saved, also
\* under a parent that was itself new.
C13_SavedBeforeChildren ==
    result = "ok" =>
        /\ SavedBeforeChildren
        /\ \A i \in DOMAIN log :
              (log[i].op = "insert" /\ log[i].model # "P") =>
                  \E r \in rows : /\ r.model = log[i].model
                                  /\ r.id = log[i].id
                                  /\ r.fk = log[i - 1].fk

\* no entry that the save processed refers to the record r, and the record is
\* not below a child that the save deleted
Unreferenced(r) ==
    \A j \in DOMAIN log :
        /\ ~(log[j].op = "visit" /\ log[j].model = r.model /\ log[j].id = r.id)
        /\ ~(log[j].op = "delete" /\ log[j].model = "C" /\ r.model = "G"
                /\ log[j].id = r.fk)

\* C15: a successful save_to leaves every existing child that no submitted
\* entry refers to as it was, with its field values.
C15_UnreferencedUnchanged ==
    result = "ok" =>
        \A r \in pre : (r.model \in {"C", "G"} /\ Unreferenced(r)) => r \in rows

C15_Witness ==
    /\ result = "ok"
    /\ \E r \in pre \cap rows :
          /\ r.model = "C" /\ r.fk = obj.pk /\ Unreferenced(r)
          /\ \E j \in DOMAIN log :
                /\ log[j].op \in {"update", "delete"}
                /\ log[j].model = "C" /\ log[j].id # r.id
    /\ \E x \in pre : x.model = "C" /\ x.fk = obj.pk /\ x \notin rows

\* C16: an entry without identifier that carries the delete flag is a no-op:
\* the step after its visit, if there is one, is the visit of the next entry of
\* the same list or of an enclosing list, so no record is created or saved for
\* it and none of its nested entries is processed.
C16_UnsetDeleteIsNoOp ==
    \A i \in DOMAIN log :
        (log[i].op = "visit" /\ log[i].id = NoId /\ log[i].del) =>
            \/ i = Len(log)
            \/ /\ log[i + 1].op = "visit"
               /\ \/ log[i + 1].model = log[i].model /\ log[i + 1].fk = log[i].fk
                  \/ log[i + 1].model = "C" /\ log[i].model = "G"

C16_Witness ==
    /\ result = "ok"
    /\ rows \ pre = {}
    /\ \E k \in DOMAIN form.entries :
          /\ form.entries[k].id = NoId
          /\ form.entries[k].delete
          /\ form.entries[k].entries # <<>>
    /\ \E i \in DOMAIN log : log[i].op = "visit" /\ log[i].id = NoId /\ log[i].del

\* ------------------------------------------------------------------------
\* Properties of convert on its arguments and on fields with choices
\* ------------------------------------------------------------------------
\* C17: convert leaves the field_args of its caller as they were: the lists of
\* validators and of filters have the same contents after the call.
C17_FieldArgsUnchanged == Converted => cafter = cargs

\* the field is converted by the default table, has choices, and a coerce
\* function is available for it
ChoicesWithCoerce ==
    /\ rule_of(cconv, cfield) = "default"
    /\ truthy(cfield.choices) \/ cargs.choices # {}
    /\ cfield.type \in DOMAIN cconv.coerce_settings \/ cargs.coerce # {}

\* C18: for a field of the default table that has choices and an available
\* coerce function convert raises nothing and returns a SelectChoicesField with
\* those choices, that coerce function and allow_blank as supplied, or else the
\* nullability of the field.
C18_ChoicesGiveSelect ==
    (Converted /\ ChoicesWithCoerce) =>
        /\ cout.status = "ok"
        /\ cout.widget = "SelectChoicesField"
        /\ cout.choices = (IF cargs.choices # {} THEN cargs.choices ELSE cfield.choices)
        /\ cout.coerce = (IF cargs.coerce # {} THEN cargs.coerce
                          ELSE {cconv.coerce_settings[cfield.type]})
        /\ cout.allow_blank = (IF cargs.allow_blank # {} THEN cargs.allow_blank
                               ELSE {cfield.null})

\* ------------------------------------------------------------------------
\* Properties of the generated inline forms
\* ------------------------------------------------------------------------
\* frame k of the stack generates the form of the inline at the head of the
\* list of frame k - 1
InlineOf(k) == Head(stack[k - 1].todo)

\* C14: the form generated for an inline has no field for the foreign key that
\* links the child to the parent, whatever only and exclude are.
C14_NoLinkField ==
    \A k \in 2..Len(stack) : fk_name(InlineOf(k)) \notin stack[k].fields

====
